---- MODULE Spec2Model ----
(***************************************************************************)
(* The desktop shell of esportsranker: the session store (zustand), the    *)
(* tournament loader (a Tauri invoke wrapped in try/catch), the            *)
(* Tournaments screen that awaits it on mount, and the route tables of     *)
(* the two App components.                                                 *)
(*                                                                         *)
(* A JavaScript string is a sequence of one-character strings; null is    *)
(* the one-element sequence Null, which no string over Chars equals.       *)
(***************************************************************************)
EXTENDS Integers, Sequences, FiniteSets, TLC

\* ------------------------------------------------------------------ bounds
MaxCodeLen == 3
MaxMounts == 2

\* --------------------------------------------------------------- strings
WhiteSpace == {" ", "\t"}
Chars == WhiteSpace \cup {"A"}

RECURSIVE StringsUpTo(_)
StringsUpTo(n) ==
  IF n = 0 THEN {<<>>}
  ELSE LET shorter == StringsUpTo(n - 1)
       IN  shorter \cup {Append(s, c) : s \in {t \in shorter : Len(t) = n - 1}, c \in Chars}

Codes == StringsUpTo(MaxCodeLen)

Null == <<"null">>

\* String.prototype.trim: strip white space from both ends, keep the inside.
RECURSIVE TrimStart(_)
TrimStart(s) ==
  IF s = <<>> THEN s
  ELSE IF Head(s) \in WhiteSpace THEN TrimStart(Tail(s)) ELSE s

RECURSIVE TrimEnd(_)
TrimEnd(s) ==
  IF s = <<>> THEN s
  ELSE IF s[Len(s)] \in WhiteSpace THEN TrimEnd(SubSeq(s, 1, Len(s) - 1)) ELSE s

Trim(s) == TrimEnd(TrimStart(s))

\* JavaScript truthiness of a string: only "" is falsy.
Truthy(s) == s # <<>>

TokenPrefix ==
  <<"m", "o", "c", "k", "_", "a", "c", "c", "e", "s", "s", "_",
    "t", "o", "k", "e", "n", "_">>

\* --------------------------------------------------------- session store
VARIABLES
  accessToken,    \* the store's accessToken: a string or Null
  isLoggedIn,     \* the store's isLoggedIn
  storeId,        \* the store's debug id
  lastCall,       \* the store operation called last, with its argument
  prevOp,         \* the name of the store operation called before that
  before,         \* the store's state when lastCall was made
  lastEffective,  \* the last call that was not a login with a blank code
  lastOutcome,    \* how lastCall ended: "returned" or "threw", and whether it warned
  \* ------------------------------------------------ screens and navigation
  app,            \* which App component is mounted
  requested,      \* the path last navigated to
  location,       \* the router's current path, redirects followed
  screen,         \* the screen element rendered at location
  tournaments,    \* the Tournaments screen's mount: [mounted, id, names, loading]
  mountCount,     \* how many times the Tournaments screen has been mounted
  loads           \* per mount: the effect's run(), the loader call and the invoke

storeVars == <<accessToken, isLoggedIn, storeId, lastCall, prevOp, before,
               lastEffective, lastOutcome>>
uiVars == <<app, requested, location, screen, tournaments, mountCount, loads>>
vars == <<storeVars, uiVars>>

\* zustand's set(partial): a shallow merge of partial into the state.
SetState(s, partial) ==
  [k \in DOMAIN s |-> IF k \in DOMAIN partial THEN partial[k] ELSE s[k]]

InitialState ==
  [storeId |-> "SESSION_STORE_SINGLETON", accessToken |-> Null, isLoggedIn |-> FALSE]

StoreState ==
  [storeId |-> storeId, accessToken |-> accessToken, isLoggedIn |-> isLoggedIn]

\* loginWithDeviceCode(code): the new state and what the caller sees.
LoginWithDeviceCodeNoTrim(s, code) ==
  IF Truthy(code) /\ Len(Trim(code)) > 0
  THEN [state |-> SetState(s, [accessToken |-> TokenPrefix \o code, isLoggedIn |-> TRUE]),
        outcome |-> "returned", warned |-> FALSE]
  ELSE [state |-> s, outcome |-> "returned", warned |-> TRUE]

LoginWithDeviceCodeBlankLogsOut(s, code) ==
  IF Truthy(code) /\ Len(Trim(code)) > 0
  THEN [state |-> SetState(s, [accessToken |-> TokenPrefix \o Trim(code), isLoggedIn |-> TRUE]),
        outcome |-> "returned", warned |-> FALSE]
  ELSE [state |-> SetState(s, [accessToken |-> Null, isLoggedIn |-> FALSE]),
        outcome |-> "returned", warned |-> TRUE]

LoginWithDeviceCodeForgetsFlag(s, code) ==
  IF Truthy(code) /\ Len(Trim(code)) > 0
  THEN [state |-> SetState(s, [accessToken |-> TokenPrefix \o Trim(code)]),
        outcome |-> "returned", warned |-> FALSE]
  ELSE [state |-> s, outcome |-> "returned", warned |-> TRUE]

LoginWithDeviceCodeKeepsFirst(s, code) ==
  IF Truthy(code) /\ Len(Trim(code)) > 0
  THEN [state |-> IF s.isLoggedIn THEN s
                  ELSE SetState(s, [accessToken |-> TokenPrefix \o Trim(code),
                                    isLoggedIn |-> TRUE]),
        outcome |-> "returned", warned |-> FALSE]
  ELSE [state |-> s, outcome |-> "returned", warned |-> TRUE]

LoginWithDeviceCode(s, code) ==
  IF Truthy(code) /\ Len(Trim(code)) > 0
  THEN LET fakeToken == TokenPrefix \o Trim(code)
       IN  [state |-> SetState(s, [accessToken |-> fakeToken, isLoggedIn |-> TRUE]),
            outcome |-> "returned", warned |-> FALSE]
  ELSE [state |-> s, outcome |-> "returned", warned |-> TRUE]

\* logout(): the new state and what the caller sees.
LogoutKeepsToken(s) ==
  [state |-> SetState(s, [isLoggedIn |-> FALSE]), outcome |-> "returned", warned |-> FALSE]

LogoutToggles(s) ==
  [state |-> IF s.isLoggedIn THEN SetState(s, [accessToken |-> Null, isLoggedIn |-> FALSE])
             ELSE SetState(s, [accessToken |-> TokenPrefix, isLoggedIn |-> TRUE]),
   outcome |-> "returned", warned |-> FALSE]

Logout(s) ==
  [state |-> SetState(s, [accessToken |-> Null, isLoggedIn |-> FALSE]),
   outcome |-> "returned", warned |-> FALSE]

NoCall == [op |-> "none", code |-> <<>>]

\* A call is recorded with the state it was made in; lastEffective skips the
\* logins whose code has no character outside WhiteSpace.
Record(call, r) ==
  /\ accessToken' = r.state.accessToken
  /\ isLoggedIn' = r.state.isLoggedIn
  /\ storeId' = r.state.storeId
  /\ lastOutcome' = [outcome |-> r.outcome, warned |-> r.warned]
  /\ prevOp' = lastCall.op
  /\ lastCall' = call
  /\ before' = StoreState
  /\ lastEffective' =
       IF call.op = "login" /\ \A i \in 1..Len(call.code) : call.code[i] \in WhiteSpace
       THEN lastEffective ELSE call

CallLogin(code) ==
  /\ Record([op |-> "login", code |-> code], LoginWithDeviceCode(StoreState, code))
  /\ UNCHANGED uiVars

CallLogout ==
  /\ Record([op |-> "logout", code |-> <<>>], Logout(StoreState))
  /\ UNCHANGED uiVars

StoreInit ==
  /\ accessToken = InitialState.accessToken
  /\ isLoggedIn = InitialState.isLoggedIn
  /\ storeId = InitialState.storeId
  /\ lastCall = NoCall
  /\ prevOp = "none"
  /\ before = InitialState
  /\ lastEffective = NoCall
  /\ lastOutcome = [outcome |-> "returned", warned |-> FALSE]

\* ------------------------------------------------------------ navigation
Apps == {"App.tsx", "part_001"}
Paths == {"/", "/login", "/dashboard", "/tournaments", "/unknown"}

\* The <Routes> children of the two App components, in source order.
AppRoutes ==
  <<[path |-> "/", kind |-> "navigate", target |-> "/dashboard"],
    [path |-> "/dashboard", kind |-> "screen", target |-> "Dashboard"],
    [path |-> "/tournaments", kind |-> "screen", target |-> "Tournaments"],
    [path |-> "/login", kind |-> "screen", target |-> "Login"],
    [path |-> "*", kind |-> "navigate", target |-> "/dashboard"]>>

Part001Routes ==
  <<[path |-> "/", kind |-> "navigate", target |-> "/dashboard"],
    [path |-> "/login", kind |-> "screen", target |-> "Login"],
    [path |-> "/dashboard", kind |-> "screen", target |-> "Dashboard"],
    [path |-> "/tournaments", kind |-> "screen", target |-> "Tournaments"]>>

RoutesOf(a) == IF a = "App.tsx" THEN AppRoutes ELSE Part001Routes

NoMatch == [path |-> "", kind |-> "none", target |-> "None"]

Min(S) == CHOOSE x \in S : \A y \in S : x <= y

\* react-router's <Routes>: the route whose path is the location, else the
\* "*" route, else nothing is rendered.
MatchRoute(routes, p) ==
  LET exact == {i \in 1..Len(routes) : routes[i].path = p}
      star == {i \in 1..Len(routes) : routes[i].path = "*"}
  IN  IF exact # {} THEN routes[Min(exact)]
      ELSE IF star # {} THEN routes[Min(star)]
      ELSE NoMatch

\* Rendering <Navigate to=... replace /> moves the location; follow it until
\* a route renders something else.
RECURSIVE Follow(_, _, _)
Follow(routes, p, hops) ==
  LET r == MatchRoute(routes, p)
  IN  IF r.kind = "navigate" /\ hops > 0 THEN Follow(routes, r.target, hops - 1) ELSE p

ResolvePath(a, p) == Follow(RoutesOf(a), p, Len(RoutesOf(a)))

ScreenAt(a, p) ==
  LET r == MatchRoute(RoutesOf(a), p)
  IN  IF r.kind = "screen" THEN r.target ELSE "None"

\* ------------------------------------------------ loader and Tournaments
Errors == {"database is locked", "command get_tournaments not found"}

\* What the external command may answer: nothing, one name, two names in
\* either order, and the same name twice.
NameLists ==
  {<<>>,
   <<"Winter Cup">>,
   <<"Spring Open", "Winter Cup">>,
   <<"Winter Cup", "Spring Open">>,
   <<"Spring Open", "Spring Open">>}

\* loadTournamentNames() after its await: what its promise settles to, given
\* how invoke("get_tournaments") settled.
LoadTournamentNamesRethrows(inv) ==
  IF inv.invoke = "resolved"
  THEN [loader |-> "resolved", data |-> inv.result, logged |-> FALSE]
  ELSE [loader |-> "rejected", data |-> <<>>, logged |-> TRUE]

RECURSIVE Dedup(_)
Dedup(s) ==
  IF s = <<>> THEN s
  ELSE LET r == Dedup(SubSeq(s, 1, Len(s) - 1))
       IN  IF \E i \in 1..Len(r) : r[i] = s[Len(s)] THEN r ELSE Append(r, s[Len(s)])

LoadTournamentNamesDedups(inv) ==
  IF inv.invoke = "resolved"
  THEN [loader |-> "resolved", data |-> Dedup(inv.result), logged |-> FALSE]
  ELSE [loader |-> "resolved", data |-> <<>>, logged |-> TRUE]

LoadTournamentNames(inv) ==
  IF inv.invoke = "resolved"
  THEN [loader |-> "resolved", data |-> inv.result, logged |-> FALSE]
  ELSE [loader |-> "resolved", data |-> <<>>, logged |-> TRUE]

\* The Tournaments component's local state at mount (the two useState calls).
TournamentsMount(id) ==
  [mounted |-> TRUE, id |-> id, names |-> <<>>, loading |-> TRUE]

Unmounted == [mounted |-> FALSE, id |-> 0, names |-> <<>>, loading |-> TRUE]

\* The mount effect: run() calls loadTournamentNames(), which calls invoke.
StartLoad ==
  [invoke |-> "pending", result |-> <<>>, error |-> "",
   loader |-> "pending", data |-> <<>>, logged |-> FALSE,
   run |-> "awaiting", calls |-> 1]

\* run() after its await: setNames(data); setLoading(false).
RunSetStateLoadingOnly(t, data) == [t EXCEPT !.loading = FALSE]

RunSetState(t, data) == [t EXCEPT !.names = data, !.loading = FALSE]

\* A link click or a URL change to path p, redirects and the mount or
\* unmount of the Tournaments screen included.
Navigate(p) ==
  LET to == ResolvePath(app, p)
      next == ScreenAt(app, to)
      mounts == next = "Tournaments" /\ screen # "Tournaments"
  IN  /\ mounts => mountCount < MaxMounts
      /\ requested' = p
      /\ location' = to
      /\ screen' = next
      /\ IF mounts
         THEN /\ mountCount' = mountCount + 1
              /\ tournaments' = TournamentsMount(mountCount + 1)
              /\ loads' = Append(loads, StartLoad)
         ELSE /\ mountCount' = mountCount
              /\ tournaments' = IF next = "Tournaments" THEN tournaments ELSE Unmounted
              /\ loads' = loads
      /\ UNCHANGED <<app, storeVars>>

\* The external get_tournaments command succeeds with a list of names.
InvokeResolve(id, names) ==
  /\ id \in 1..Len(loads)
  /\ loads[id].invoke = "pending"
  /\ loads' = [loads EXCEPT ![id].invoke = "resolved", ![id].result = names]
  /\ UNCHANGED <<app, requested, location, screen, tournaments, mountCount, storeVars>>

\* The external get_tournaments command fails.
InvokeReject(id, err) ==
  /\ id \in 1..Len(loads)
  /\ loads[id].invoke = "pending"
  /\ loads' = [loads EXCEPT ![id].invoke = "rejected", ![id].error = err]
  /\ UNCHANGED <<app, requested, location, screen, tournaments, mountCount, storeVars>>

\* loadTournamentNames() resumes after its await and settles its promise.
LoaderResume(id) ==
  /\ id \in 1..Len(loads)
  /\ loads[id].invoke # "pending"
  /\ loads[id].loader = "pending"
  /\ LET r == LoadTournamentNames(loads[id])
     IN  loads' = [loads EXCEPT ![id].loader = r.loader, ![id].data = r.data,
                                ![id].logged = r.logged]
  /\ UNCHANGED <<app, requested, location, screen, tournaments, mountCount, storeVars>>

\* run() resumes after its await; React drops the updates of a component
\* that is no longer mounted, and a rejected await ends run() before them.
RunResume(id) ==
  /\ id \in 1..Len(loads)
  /\ loads[id].loader # "pending"
  /\ loads[id].run = "awaiting"
  /\ IF loads[id].loader = "resolved"
     THEN /\ loads' = [loads EXCEPT ![id].run = "done"]
          /\ tournaments' =
               IF tournaments.mounted /\ tournaments.id = id
               THEN RunSetState(tournaments, loads[id].data)
               ELSE tournaments
     ELSE /\ loads' = [loads EXCEPT ![id].run = "failed"]
          /\ tournaments' = tournaments
  /\ UNCHANGED <<app, requested, location, screen, mountCount, storeVars>>

UiInit ==
  /\ app \in Apps
  /\ requested = "/"
  /\ location = ResolvePath(app, "/")
  /\ screen = ScreenAt(app, location)
  /\ tournaments = Unmounted
  /\ mountCount = 0
  /\ loads = <<>>

Init == StoreInit /\ UiInit

StoreNext ==
  \/ \E code \in Codes : CallLogin(code)
  \/ CallLogout

StoreSpec == Init /\ [][StoreNext]_vars

UiNext ==
  \/ \E p \in Paths : Navigate(p)
  \/ \E id \in 1..MaxMounts, names \in NameLists : InvokeResolve(id, names)
  \/ \E id \in 1..MaxMounts, err \in Errors : InvokeReject(id, err)
  \/ \E id \in 1..MaxMounts : LoaderResume(id)
  \/ \E id \in 1..MaxMounts : RunResume(id)

UiSpec == Init /\ [][UiNext]_vars

\* Promise continuations are microtasks: one that is ready does run.
UiFairSpec ==
  /\ Init
  /\ [][UiNext]_vars
  /\ \A id \in 1..MaxMounts : WF_vars(LoaderResume(id)) /\ WF_vars(RunResume(id))

\* ------------------------------------------------------------ properties
\* A code is blank when every character of it is white space.
Blank(code) == \A i \in 1..Len(code) : code[i] \in WhiteSpace

\* t is code without its leading and trailing white space: code is white
\* space, then t, then white space, and t neither starts nor ends with any.
IsStripped(t, code) ==
  \E i, j \in 0..Len(code) :
    /\ i + j <= Len(code)
    /\ t = SubSeq(code, i + 1, Len(code) - j)
    /\ \A k \in 1..i : code[k] \in WhiteSpace
    /\ \A k \in (Len(code) - j + 1)..Len(code) : code[k] \in WhiteSpace
    /\ t # <<>> => t[1] \notin WhiteSpace /\ t[Len(t)] \notin WhiteSpace

Stripped(code) == CHOOSE t \in Codes : IsStripped(t, code)

LoggedOut == [InitialState EXCEPT !.accessToken = Null, !.isLoggedIn = FALSE]

\* C1: in every reachable state of the store, isLoggedIn is true exactly
\* when accessToken is not null.
C1_LoggedInIffToken == isLoggedIn <=> accessToken # Null

C1_Witness ==
  /\ isLoggedIn /\ accessToken # Null
  /\ lastCall.op = "login" /\ prevOp = "logout"

\* C2: after loginWithDeviceCode(code) with a code that is not blank,
\* isLoggedIn is true and accessToken is "mock_access_token_" followed by
\* the code without its leading and trailing white space.
C2_LoginSetsToken ==
  (lastCall.op = "login" /\ ~Blank(lastCall.code)) =>
    /\ isLoggedIn
    /\ accessToken = TokenPrefix \o Stripped(lastCall.code)
    /\ Len(accessToken) > Len(TokenPrefix)
    /\ accessToken[Len(TokenPrefix) + 1] \notin WhiteSpace
    /\ accessToken[Len(accessToken)] \notin WhiteSpace

C2_Witness ==
  /\ lastCall.op = "login"
  /\ lastCall.code = <<" ", "A", "\t">>
  /\ accessToken = TokenPrefix \o <<"A">>
  /\ isLoggedIn

\* C3: loginWithDeviceCode(code) with an empty or all-white-space code
\* leaves accessToken and isLoggedIn as they were and returns normally.
C3_BlankLoginIsNoOp ==
  (lastCall.op = "login" /\ Blank(lastCall.code)) =>
    /\ StoreState = before
    /\ lastOutcome.outcome = "returned"

C3_Witness ==
  /\ lastCall.op = "login"
  /\ lastCall.code = <<" ", "\t">>
  /\ before.isLoggedIn
  /\ isLoggedIn
  /\ accessToken = before.accessToken
  /\ lastOutcome.warned

\* C4: after logout(), whatever the state before, isLoggedIn is false and
\* accessToken is null.
C4_LogoutClears ==
  lastCall.op = "logout" => ~isLoggedIn /\ accessToken = Null

C4_Witness ==
  /\ lastCall.op = "logout"
  /\ before.isLoggedIn
  /\ ~isLoggedIn

\* C5: logout() is idempotent: a second logout() in a row leaves the state
\* of the first, and logout() in the logged-out state changes nothing.
C5_LogoutIdempotent ==
  /\ Logout(Logout(StoreState).state).state = Logout(StoreState).state
  /\ (lastCall.op = "logout" /\ prevOp = "logout") => StoreState = before
  /\ (lastCall.op = "logout" /\ before = LoggedOut) => StoreState = before

C5_Witness ==
  /\ lastCall.op = "logout"
  /\ prevOp = "logout"
  /\ StoreState = before

\* C10: the store's state is decided by the last call that was not a login
\* with a blank code: the initial state when there was none, the logged-out
\* state after logout(), and the token of its code after a login.
C10_LastWriteWins ==
  StoreState =
    IF lastEffective.op = "login"
    THEN [InitialState EXCEPT !.accessToken = TokenPrefix \o Stripped(lastEffective.code),
                              !.isLoggedIn = TRUE]
    ELSE IF lastEffective.op = "logout" THEN LoggedOut
    ELSE InitialState

C10_Witness ==
  /\ lastCall.op = "login"
  /\ prevOp = "login"
  /\ before.isLoggedIn
  /\ before.accessToken = TokenPrefix \o <<"A", " ", "A">>
  /\ accessToken = TokenPrefix \o <<"A">>

\* C6: loadTournamentNames() never rejects; when get_tournaments fails it
\* resolves to the empty list, as it does when get_tournaments succeeds
\* with the empty list.
C6_LoaderNeverRejects ==
  \A id \in 1..Len(loads) :
    /\ loads[id].loader # "rejected"
    /\ loads[id].run # "failed"
    /\ (loads[id].invoke = "rejected" /\ loads[id].loader # "pending") =>
         /\ loads[id].loader = "resolved"
         /\ loads[id].data = <<>>
         /\ LET ok == LoadTournamentNames([loads[id] EXCEPT !.invoke = "resolved",
                                                            !.result = <<>>])
            IN  ok.loader = loads[id].loader /\ ok.data = loads[id].data

C6_Witness ==
  \E id \in 1..Len(loads) :
    /\ loads[id].invoke = "rejected"
    /\ loads[id].loader = "resolved"
    /\ loads[id].logged

\* C7: when get_tournaments succeeds, loadTournamentNames() resolves to the
\* very list it returned: same names, same order, duplicates kept.
C7_LoaderPassesThrough ==
  \A id \in 1..Len(loads) :
    (loads[id].invoke = "resolved" /\ loads[id].loader # "pending") =>
      /\ loads[id].loader = "resolved"
      /\ loads[id].data = loads[id].result

C7_Witness ==
  \E id \in 1..Len(loads) :
    /\ loads[id].invoke = "resolved"
    /\ loads[id].loader = "resolved"
    /\ loads[id].data = <<"Spring Open", "Spring Open">>

\* C8: every navigation ends on a screen: /login, /dashboard and
\* /tournaments on their own, / and every other path on Dashboard.
C8_EveryPathHasScreen ==
  screen = CASE requested = "/login" -> "Login"
             [] requested = "/dashboard" -> "Dashboard"
             [] requested = "/tournaments" -> "Tournaments"
             [] OTHER -> "Dashboard"

\* The list the screen is to show once the load of mount id has settled.
Settled(id) == loads[id].invoke # "pending"
Answer(id) == IF loads[id].invoke = "resolved" THEN loads[id].result ELSE <<>>
Shows(id) == tournaments.mounted /\ tournaments.id = id

C9_State ==
  /\ Len(loads) = mountCount
  /\ \A id \in 1..mountCount : loads[id].calls = 1
  /\ tournaments.mounted =>
       /\ tournaments.id = mountCount
       /\ ~Settled(tournaments.id) => tournaments.loading
       /\ loads[tournaments.id].run = "awaiting" =>
            tournaments.loading /\ tournaments.names = <<>>
       /\ ~tournaments.loading =>
            Settled(tournaments.id) /\ tournaments.names = Answer(tournaments.id)

C9_Step ==
  (tournaments.mounted /\ tournaments'.mounted /\ tournaments'.id = tournaments.id) =>
    /\ ~tournaments.loading => ~tournaments'.loading
    /\ (tournaments.loading /\ ~tournaments'.loading) =>
         /\ Settled(tournaments.id)
         /\ tournaments'.names = loads[tournaments.id].data
         /\ tournaments'.names = Answer(tournaments.id)

\* C9: each mount of the Tournaments screen calls the loader once; loading
\* starts true and stays true while get_tournaments is pending; once it has
\* settled, loading becomes false (unless the screen is unmounted first) and
\* does not become true again in that mount; and when loading becomes false
\* the list shown is the one the loader resolved to.
C9_LoadingLifecycle ==
  /\ []C9_State
  /\ [][C9_Step]_vars
  /\ \A id \in 1..MaxMounts :
       (Shows(id) /\ Settled(id)) ~> (~Shows(id) \/ ~tournaments.loading)

C9_Witness ==
  /\ tournaments.mounted
  /\ ~tournaments.loading
  /\ tournaments.names = <<"Spring Open", "Winter Cup">>
  /\ loads[tournaments.id].run = "done"
====
